---- MODULE Spec2Model ----
(***************************************************************************)
(* Model of news_search.py: one run of main(), or one direct invocation of *)
(* search_news_with_retry(client, max_retries) or of validate_urls(urls).  *)
(*                                                                         *)
(* Strings are sequences of one-character strings, so that split, strip,   *)
(* startswith, len and the URL regular expression are computed on the      *)
(* characters as the Python code computes them.                            *)
(***************************************************************************)
EXTENDS Integers, Sequences, FiniteSets, TLC

VARIABLES
    entry,        \* the function the run invokes: "main", "search_news_with_retry"
                  \* or "validate_urls"
    api_key,      \* os.getenv("OPENAI_API_KEY"): None, "" or a key
    max_retries,  \* parameter of search_news_with_retry
    pc,           \* position of the single thread of control
    it,           \* next value the iterator of range(max_retries) yields
    attempt,      \* loop variable of search_news_with_retry
    content,      \* response.output_text of the current attempt
    usage,        \* response.usage of the current attempt
    urls,         \* the argument of the last call of validate_urls
    valid_urls,   \* the list the last call of validate_urls returned
    exc,          \* exception in flight / bound to e in a handler (None if none)
    search_result,\* value returned by search_news_with_retry to its caller
    result,       \* the success record built by main
    clock,        \* wall clock in seconds, as read by datetime.now()
    files,        \* file system: file name -> JSON object last dumped into it
    calls,        \* number of client.responses.create calls issued so far
    trace         \* observable events of the run, in order

vars == <<entry, api_key, max_retries, pc, it, attempt, content, usage, urls,
          valid_urls, exc, search_result, result, clock, files, calls, trace>>

-----------------------------------------------------------------------------
(* Bounds of the model *)

\* largest max_retries a direct invocation is given
MaxRetriesBound == 3

\* longest response text, counted in pieces of Pieces
MaxPieces == 3

\* longest list a direct invocation of validate_urls is given
MaxUrls == 3

-----------------------------------------------------------------------------
(* Python values *)

\* Python's None
None == [none |-> TRUE]

\* a Python str, as a value that may also be None
PyStr(chars) == [str |-> chars]

\* max_retries: int = 3
DefaultMaxRetries == 3

\* len(url) > 10
MinUrlLen == 10

ModelName == "gpt-5-nano"

LatestFile == "news_results_latest.json"

\* datetime.now().strftime('%Y%m%d_%H%M%S') inside the f-string of line 143
StampedFile(now) == "news_results_" \o ToString(now) \o ".json"

-----------------------------------------------------------------------------
(* Strings as character sequences *)

Whitespace == {" ", "\n", "\t", "\r"}

\* the characters the character class of the URL pattern excludes
\* (the grave accent cannot be written in a string of this language: the
\* character is named)
GraveAccent == "grave-accent"

UrlExcluded ==
    Whitespace \cup {"<", ">", "\"", "{", "}", "|", "\\", "^", GraveAccent, "[", "]"}

HTTP == <<"h", "t", "t", "p">>
HTTP_PREFIX == <<"h", "t", "t", "p", ":", "/", "/">>
HTTPS_PREFIX == <<"h", "t", "t", "p", "s", ":", "/", "/">>
COLON_SLASHES == <<":", "/", "/">>

\* s[i:].startswith(p), i counted from 1
StartsWithAt(s, p, i) ==
    /\ i + Len(p) - 1 <= Len(s)
    /\ \A j \in 1..Len(p) : s[i + j - 1] = p[j]

\* str.startswith(p)
StartsWith(s, p) == StartsWithAt(s, p, 1)

\* p in s
Contains(s, p) == \E i \in 1..(Len(s) - Len(p) + 1) : StartsWithAt(s, p, i)

\* str.strip(): leading and trailing whitespace removed
Strip(s) ==
    LET keep == {i \in 1..Len(s) : s[i] \notin Whitespace}
    IN  IF keep = {} THEN <<>>
        ELSE LET lo == CHOOSE i \in keep : \A j \in keep : i <= j
                 hi == CHOOSE i \in keep : \A j \in keep : j <= i
             IN  SubSeq(s, lo, hi)

\* str.split("\n"): the pieces between newlines, empty pieces included
RECURSIVE SplitFrom(_, _, _)
SplitFrom(s, start, i) ==
    IF i > Len(s) THEN <<SubSeq(s, start, Len(s))>>
    ELSE IF s[i] = "\n"
         THEN <<SubSeq(s, start, i - 1)>> \o SplitFrom(s, i + 1, i + 1)
         ELSE SplitFrom(s, start, i + 1)

SplitLines(s) == SplitFrom(s, 1, 1)

\* end of the longest run of characters of the URL class that starts at i
\* (i - 1 when s[i] is excluded or past the end)
RECURSIVE RunEnd(_, _)
RunEnd(s, i) ==
    IF i <= Len(s) /\ s[i] \notin UrlExcluded THEN RunEnd(s, i + 1) ELSE i - 1

\* re.match of the URL pattern (https?:// and one or more characters of the
\* class) at position i: the position of the
\* last character of the match, 0 when there is none.  The optional s is tried
\* first (greedy), then the pattern without it.
MatchEndAt(s, i) ==
    IF ~StartsWithAt(s, HTTP, i) THEN 0
    ELSE LET withS == IF StartsWithAt(s, <<"s">> \o COLON_SLASHES, i + 4)
                      THEN RunEnd(s, i + 8) ELSE 0
             noS   == IF StartsWithAt(s, COLON_SLASHES, i + 4)
                      THEN RunEnd(s, i + 7) ELSE 0
         IN  IF withS >= i + 8 THEN withS
             ELSE IF noS >= i + 7 THEN noS
             ELSE 0

\* re.findall(pattern, s): the leftmost non-overlapping matches, in order
RECURSIVE FindAllFrom(_, _)
FindAllFrom(s, i) ==
    IF i > Len(s) THEN <<>>
    ELSE LET e == MatchEndAt(s, i)
         IN  IF e = 0 THEN FindAllFrom(s, i + 1)
             ELSE <<SubSeq(s, i, e)>> \o FindAllFrom(s, e + 1)

FindAllUrls(s) == FindAllFrom(s, 1)

-----------------------------------------------------------------------------
(* validate_urls and the extraction of an attempt *)

ValidUrlNoLength(u) ==
    StartsWith(u, HTTP_PREFIX) \/ StartsWith(u, HTTPS_PREFIX)

\* the condition of validate_urls on a stripped url
ValidUrl(u) ==
    /\ StartsWith(u, HTTP_PREFIX) \/ StartsWith(u, HTTPS_PREFIX)
    /\ Len(u) > MinUrlLen

RECURSIVE validate_urls(_)
validate_urls(list) ==
    IF list = <<>> THEN <<>>
    ELSE LET url == Strip(Head(list))
         IN  (IF ValidUrl(url) THEN <<url>> ELSE <<>>) \o validate_urls(Tail(list))

\* a loop that takes the first URL of a line only
RECURSIVE UrlsInLinesFirstOnly(_)
UrlsInLinesFirstOnly(lines) ==
    IF lines = <<>> THEN <<>>
    ELSE LET line == Strip(Head(lines))
             found == IF Contains(line, HTTP) THEN FindAllUrls(line) ELSE <<>>
         IN  (IF found = <<>> THEN <<>> ELSE <<Head(found)>>)
             \o UrlsInLinesFirstOnly(Tail(lines))

\* the loop over content.split("\n"): news_urls
RECURSIVE UrlsInLines(_)
UrlsInLines(lines) ==
    IF lines = <<>> THEN <<>>
    ELSE LET line == Strip(Head(lines))
         IN  (IF Contains(line, HTTP) THEN FindAllUrls(line) ELSE <<>>)
             \o UrlsInLines(Tail(lines))

NewsUrls(text) == UrlsInLines(SplitLines(text))

\* the "alternative parsing": the pattern applied to the whole content
AllUrls(text) == FindAllUrls(text)

\* lines 77-86: the list handed to the call of validate_urls whose result
\* stands at the test of line 89
CandidatesOf(text) ==
    IF Len(validate_urls(NewsUrls(text))) = 0 THEN AllUrls(text) ELSE NewsUrls(text)

\* valid_urls as it stands at the test of line 89
ValidUrlsOf(text) == validate_urls(CandidatesOf(text))

-----------------------------------------------------------------------------
(* Response texts the API may return *)

Pieces == {
    <<"h", "t", "t", "p", ":", "/", "/", "a", ".", "b">>,
    <<"h", "t", "t", "p", "s", ":", "/", "/", "a", ".", "b">>,
    <<"h", "t", "t", "p">>,
    <<" ">>,
    <<"\n">>,
    <<"<">> }

RECURSIVE TextsOfPieces(_)
TextsOfPieces(n) ==
    IF n = 0 THEN {<<>>}
    ELSE LET shorter == TextsOfPieces(n - 1)
         IN  shorter \cup {t \o p : t \in shorter, p \in Pieces}

Texts == TextsOfPieces(MaxPieces)

\* strings a caller may hand to validate_urls
Candidates == {
    <<>>,
    <<"h", "t", "t", "p">>,
    <<"h", "t", "t", "p", "s", ":", "/", "/">>,
    <<"h", "t", "t", "p", ":", "/", "/", "a", ".", "b">>,
    <<"h", "t", "t", "p", ":", "/", "/", "a", ".", "b", " ">>,
    <<"h", "t", "t", "p", "s", ":", "/", "/", "a", ".", "b">>,
    <<" ", "h", "t", "t", "p", ":", "/", "/", "a", ".", "b", "c", "\n">>,
    <<"f", "t", "p", ":", "/", "/", "a", ".", "b", ".", "c", "d">> }

RECURSIVE ListsOf(_, _)
ListsOf(S, n) ==
    IF n = 0 THEN {<<>>}
    ELSE LET shorter == ListsOf(S, n - 1)
         IN  shorter \cup {Append(l, x) : l \in shorter, x \in S}

UrlLists == ListsOf(Candidates, MaxUrls)

\* lines 65-89 on each response text: the candidate list handed to
\* validate_urls, the list it returns, and whether the text holds "http"
Extracted ==
    [text \in Texts |->
        [candidates |-> CandidatesOf(text),
         valid |-> ValidUrlsOf(text),
         has_http |-> Contains(text, HTTP)]]

-----------------------------------------------------------------------------
(* Exceptions *)

Exception(type, args) == [type |-> type, args |-> args]

\* str(e) of BaseException: "" without arguments, the argument when there is one
Str(e) == IF Len(e.args) = 0 THEN "" ELSE e.args[1]

\* raise ValueError("OPENAI_API_KEY environment variable is required")
MissingKeyError ==
    Exception("ValueError", <<"OPENAI_API_KEY environment variable is required">>)

\* raise ValueError("No valid URLs found in web search results")
NoValidUrlsError ==
    Exception("ValueError", <<"No valid URLs found in web search results">>)

\* exceptions client.responses.create may raise
ApiErrors == {
    Exception("APIConnectionError", <<"Connection error.">>),
    Exception("TimeoutError", <<>>) }

\* search_result["urls"] when search_result is None
NoneSubscriptError ==
    Exception("TypeError", <<"'NoneType' object is not subscriptable">>)

-----------------------------------------------------------------------------
(* Environment *)

EnvValues == {None, PyStr(<<>>), PyStr(<<"s", "k">>)}

\* response.usage: absent, or an object model_dump() turns into a dict
Usages == {None, [total_tokens |-> 7]}

\* a record a previous run left in the latest file (its clock was 0)
OldError ==
    [timestamp |-> 0, status |-> "error", error |-> "old", model_used |-> ModelName]
OldSuccess ==
    [timestamp |-> 0, status |-> "success", news_urls |-> <<>>, url_count |-> 0,
     usage |-> [null |-> TRUE], model_used |-> ModelName]
OldRecords == {OldError, OldSuccess}

NoFiles == [f \in {} |-> None]

\* the directory before the run: empty, or left by a failed run, or left by
\* a successful run (whose timestamped file has the name this run may form)
InitialFiles == {
    NoFiles,
    LatestFile :> OldError,
    (LatestFile :> OldSuccess) @@ (StampedFile(1) :> OldSuccess) }

-----------------------------------------------------------------------------
(* Records *)

\* the dict search_news_with_retry returns (lines 97-101)
SearchResult(valid, text, usage_data) ==
    [urls |-> SubSeq(valid, 1, 1), raw_response |-> text, usage |-> usage_data]

\* the dict main builds on success (lines 129-136)
SuccessResult(sr, timestamp) ==
    [timestamp |-> timestamp, news_urls |-> sr.urls, model_used |-> ModelName,
     url_count |-> Len(sr.urls), usage |-> sr.usage, status |-> "success"]

\* an error record that names the kind of the exception, not its message
ErrorResultTypeName(e, timestamp) ==
    [timestamp |-> timestamp, status |-> "error", error |-> e.type,
     model_used |-> ModelName]

\* the dict main builds in its handler (lines 157-162)
ErrorResult(e, timestamp) ==
    [timestamp |-> timestamp, status |-> "error", error |-> Str(e),
     model_used |-> ModelName]

\* json.dump: the JSON object a dict is written as (None becomes null)
JsonNull == [null |-> TRUE]

JsonDump(d) ==
    IF d.status = "success"
    THEN [d EXCEPT !.usage = IF d.usage = None THEN JsonNull ELSE d.usage]
    ELSE d

\* with open(name, "w") as f: json.dump(d, f)
WriteFile(fs, name, d) ==
    [f \in DOMAIN fs \cup {name} |-> IF f = name THEN JsonDump(d) ELSE fs[f]]

\* a retry test that gives up one attempt early
RetryOffByOne(a, n) == a < n - 2

\* a handler that backs off after every failed attempt, the last included
RetryAlways(a, n) == a < n

\* line 105: attempt < max_retries - 1
Retry(a, n) == a < n - 1

\* a backoff computed from the attempt number counted from 1
WaitTimeOneBased(k) == 2 ^ (k + 1)

\* wait_time = 2**attempt
WaitTime(k) == 2 ^ k

-----------------------------------------------------------------------------
(* Events of the run *)

CreateEvent(k, outcome, e) ==
    [op |-> "create", attempt |-> k, outcome |-> outcome, exc |-> e]
SleepEvent(secs) == [op |-> "sleep", secs |-> secs]
DumpEvent(name, d) == [op |-> "dump", file |-> name, status |-> d.status]
RaiseEvent(from, e) == [op |-> "raise", from |-> from, exc |-> e]
ReturnEvent(from) == [op |-> "return", from |-> from]

-----------------------------------------------------------------------------
(* The run *)

Init ==
    /\ entry \in {"main", "search_news_with_retry", "validate_urls"}
    /\ CASE entry = "main" ->
              /\ api_key \in EnvValues
              /\ max_retries = DefaultMaxRetries
              /\ files \in InitialFiles
              /\ urls = <<>>
              /\ pc = "main"
         [] entry = "search_news_with_retry" ->
              /\ api_key = PyStr(<<"s", "k">>)
              /\ max_retries \in 0..MaxRetriesBound
              /\ files = NoFiles
              /\ urls = <<>>
              /\ pc = "for"
         [] entry = "validate_urls" ->
              /\ api_key = PyStr(<<"s", "k">>)
              /\ max_retries = DefaultMaxRetries
              /\ files = NoFiles
              /\ urls \in UrlLists
              /\ pc = "validate"
    /\ valid_urls = <<>>
    /\ it = 0
    /\ attempt = -1
    /\ content = <<>>
    /\ usage = None
    /\ exc = None
    /\ search_result = None
    /\ result = None
    /\ clock = 1
    /\ calls = 0
    /\ trace = <<>>

\* a successful attempt that goes round the loop again instead of returning
AfterReturnContinues ==
    IF pc = "create" THEN "for" ELSE IF entry = "main" THEN "build" ELSE "returned"

\* where control goes when search_news_with_retry returns or raises
AfterReturn == IF entry = "main" THEN "build" ELSE "returned"
AfterRaise == IF entry = "main" THEN "except" ELSE "raised"

\* lines 23-30: a direct invocation of validate_urls
ValidateUrls ==
    /\ pc = "validate"
    /\ valid_urls' = validate_urls(urls)
    /\ trace' = Append(trace, ReturnEvent("validate_urls"))
    /\ pc' = "returned"
    /\ UNCHANGED <<entry, api_key, max_retries, it, attempt, content, usage, urls,
                   exc, search_result, result, clock, files, calls>>

\* a test of the key that lets the empty string through
MainGetKeyNoneOnly ==
    /\ pc = "main"
    /\ IF api_key = None
       THEN /\ exc' = MissingKeyError
            /\ pc' = "except"
       ELSE /\ exc' = exc
            /\ pc' = "for"
    /\ UNCHANGED <<entry, api_key, max_retries, it, attempt, content, usage, urls,
                   valid_urls, search_result, result, clock, files, calls, trace>>

\* main, lines 118-126: the key is read and tested, the client built and
\* search_news_with_retry(client) called with its default max_retries
MainGetKey ==
    /\ pc = "main"
    /\ IF api_key = None \/ api_key = PyStr(<<>>)
       THEN /\ exc' = MissingKeyError
            /\ pc' = "except"
       ELSE /\ exc' = exc
            /\ pc' = "for"
    /\ UNCHANGED <<entry, api_key, max_retries, it, attempt, content, usage, urls, valid_urls,
                   search_result, result, clock, files, calls, trace>>

\* a loop whose counter is never advanced
ForNextNoAdvance ==
    /\ pc = "for"
    /\ it < max_retries
    /\ attempt' = it
    /\ it' = it
    /\ pc' = "create"
    /\ UNCHANGED <<entry, api_key, max_retries, content, usage, urls, valid_urls, exc,
                   search_result, result, clock, files, calls, trace>>

\* line 36: range(max_retries) yields the next attempt
ForNext ==
    /\ pc = "for"
    /\ it < max_retries
    /\ attempt' = it
    /\ it' = it + 1
    /\ pc' = "create"
    /\ UNCHANGED <<entry, api_key, max_retries, content, usage, urls, valid_urls, exc,
                   search_result, result, clock, files, calls, trace>>

\* line 36: range(max_retries) is exhausted; the function falls off its end
\* and returns None
ForExhausted ==
    /\ pc = "for"
    /\ ~(it < max_retries)
    /\ search_result' = None
    /\ pc' = AfterReturn
    /\ trace' = Append(trace, ReturnEvent("search_news_with_retry"))
    /\ UNCHANGED <<entry, api_key, max_retries, it, attempt, content, usage, urls, valid_urls, exc,
                   result, clock, files, calls>>

\* line 41: client.responses.create raises
CreateRaises ==
    /\ pc = "create"
    /\ \E e \in ApiErrors :
        /\ exc' = e
        /\ trace' = Append(trace, CreateEvent(attempt + 1, "api_error", e))
    /\ calls' = calls + 1
    /\ pc' = "handler"
    /\ UNCHANGED <<entry, api_key, max_retries, it, attempt, content, usage, urls, valid_urls,
                   search_result, result, clock, files>>

\* lines 41-101: client.responses.create returns; the URLs of the response
\* text are extracted and validated, and the attempt returns its result or
\* raises ValueError.  (On the raising path the locals content, usage and
\* valid_urls are dead: they are assigned again before they are read, and
\* the model leaves them as they were.)
CreateReturns ==
    /\ pc = "create"
    /\ calls' = calls + 1
    /\ \E text \in Texts, u \in Usages :
        LET valid == Extracted[text].valid
        IN  IF Len(valid) = 0
            THEN /\ exc' = NoValidUrlsError
                 /\ pc' = "handler"
                 /\ trace' = Append(trace,
                        CreateEvent(attempt + 1,
                            IF Extracted[text].has_http THEN "no_valid_url" ELSE "no_http",
                            NoValidUrlsError))
                 /\ UNCHANGED <<content, usage, urls, valid_urls, search_result>>
            ELSE /\ content' = text
                 /\ usage' = u
                 /\ urls' = Extracted[text].candidates
                 /\ valid_urls' = valid
                 /\ search_result' = SearchResult(valid, text, u)
                 /\ pc' = AfterReturn
                 /\ trace' = Append(Append(trace, CreateEvent(attempt + 1, "ok", None)),
                                    ReturnEvent("search_news_with_retry"))
                 /\ exc' = exc
    /\ UNCHANGED <<entry, api_key, max_retries, it, attempt, result, clock, files>>

\* lines 103-108: the attempt failed and is not the last: sleep, then loop
HandlerSleeps ==
    /\ pc = "handler"
    /\ Retry(attempt, max_retries)
    /\ trace' = Append(trace, SleepEvent(WaitTime(attempt)))
    /\ clock' = clock + WaitTime(attempt)
    /\ exc' = None
    /\ pc' = "for"
    /\ UNCHANGED <<entry, api_key, max_retries, it, attempt, content, usage, urls, valid_urls,
                   search_result, result, files, calls>>

\* a final branch that raises the exception of the first attempt, kept from
\* the first failure on
HandlerRaisesFirst ==
    /\ pc = "handler"
    /\ ~Retry(attempt, max_retries)
    /\ \E i \in 1..Len(trace) :
          /\ trace[i].op = "create"
          /\ trace[i].attempt = 1
          /\ exc' = trace[i].exc
          /\ trace' = Append(trace, RaiseEvent("search_news_with_retry", trace[i].exc))
    /\ pc' = AfterRaise
    /\ UNCHANGED <<entry, api_key, max_retries, it, attempt, content, usage, urls,
                   valid_urls, search_result, result, clock, files, calls>>

\* lines 109-112: the last attempt failed: its exception is raised again
HandlerRaises ==
    /\ pc = "handler"
    /\ ~Retry(attempt, max_retries)
    /\ trace' = Append(trace, RaiseEvent("search_news_with_retry", exc))
    /\ pc' = AfterRaise
    /\ UNCHANGED <<entry, api_key, max_retries, it, attempt, content, usage, urls, valid_urls, exc,
                   search_result, result, clock, files, calls>>

\* lines 128-140: the success record is built
MainBuild ==
    /\ pc = "build"
    /\ IF search_result = None
       THEN /\ exc' = NoneSubscriptError
            /\ pc' = "except"
            /\ UNCHANGED <<result, clock>>
       ELSE /\ result' = SuccessResult(search_result, clock)
            /\ clock' = clock
            /\ pc' = "dump_stamped"
            /\ exc' = exc
    /\ UNCHANGED <<entry, api_key, max_retries, it, attempt, content, usage, urls, valid_urls,
                   search_result, files, calls, trace>>

\* lines 143-145: the timestamped file
MainDumpStamped ==
    /\ pc = "dump_stamped"
    /\ files' = WriteFile(files, StampedFile(clock), result)
    /\ trace' = Append(trace, DumpEvent(StampedFile(clock), result))
    /\ pc' = "dump_latest"
    /\ UNCHANGED <<entry, api_key, max_retries, it, attempt, content, usage, urls, valid_urls, exc,
                   search_result, result, clock, calls>>

\* a success path that forgets the latest file
MainDumpLatestSkipped ==
    /\ pc = "dump_latest"
    /\ trace' = Append(trace, ReturnEvent("main"))
    /\ pc' = "returned"
    /\ UNCHANGED <<entry, api_key, max_retries, it, attempt, content, usage, urls,
                   valid_urls, exc, search_result, result, clock, files, calls>>

\* lines 148-151: the latest file; main returns
MainDumpLatest ==
    /\ pc = "dump_latest"
    /\ files' = WriteFile(files, LatestFile, result)
    /\ trace' = Append(Append(trace, DumpEvent(LatestFile, result)), ReturnEvent("main"))
    /\ pc' = "returned"
    /\ UNCHANGED <<entry, api_key, max_retries, it, attempt, content, usage, urls, valid_urls, exc,
                   search_result, result, clock, calls>>

\* a handler that writes the error record to a timestamped file as well
MainExceptAlsoStamped ==
    /\ pc = "except"
    /\ files' = WriteFile(WriteFile(files, StampedFile(clock), ErrorResult(exc, clock)),
                          LatestFile, ErrorResult(exc, clock))
    /\ trace' = Append(Append(trace,
                    DumpEvent(StampedFile(clock), ErrorResult(exc, clock))),
                    DumpEvent(LatestFile, ErrorResult(exc, clock)))
    /\ pc' = "reraise"
    /\ UNCHANGED <<entry, api_key, max_retries, it, attempt, content, usage, urls,
                   valid_urls, exc, search_result, result, clock, calls>>

\* a handler that only logs the error
MainExceptNoWrite ==
    /\ pc = "except"
    /\ pc' = "reraise"
    /\ UNCHANGED <<entry, api_key, max_retries, it, attempt, content, usage, urls,
                   valid_urls, exc, search_result, result, clock, files, calls, trace>>

\* lines 153-165: the handler of main writes the error record
MainExcept ==
    /\ pc = "except"
    /\ files' = WriteFile(files, LatestFile, ErrorResult(exc, clock))
    /\ trace' = Append(trace, DumpEvent(LatestFile, ErrorResult(exc, clock)))
    /\ pc' = "reraise"
    /\ UNCHANGED <<entry, api_key, max_retries, it, attempt, content, usage, urls, valid_urls, exc,
                   search_result, result, clock, calls>>

\* a handler that ends without raising
MainReraiseSwallowed ==
    /\ pc = "reraise"
    /\ trace' = Append(trace, ReturnEvent("main"))
    /\ pc' = "returned"
    /\ UNCHANGED <<entry, api_key, max_retries, it, attempt, content, usage, urls,
                   valid_urls, exc, search_result, result, clock, files, calls>>

\* line 167: raise
MainReraise ==
    /\ pc = "reraise"
    /\ trace' = Append(trace, RaiseEvent("main", exc))
    /\ pc' = "raised"
    /\ UNCHANGED <<entry, api_key, max_retries, it, attempt, content, usage, urls, valid_urls, exc,
                   search_result, result, clock, files, calls>>

Next ==
    \/ MainGetKey
    \/ ForNext
    \/ ForExhausted
    \/ CreateRaises
    \/ CreateReturns
    \/ HandlerSleeps
    \/ HandlerRaises
    \/ MainBuild
    \/ MainDumpStamped
    \/ MainDumpLatest
    \/ MainExcept
    \/ MainReraise
    \/ ValidateUrls

Spec == Init /\ [][Next]_vars

\* the single thread of control is never suspended for ever: every call
\* (the API call, time.sleep, the file writes) returns or raises
FairSpec == Spec /\ WF_vars(Next)

-----------------------------------------------------------------------------
(* File writes that fail *)

\* open or json.dump raises: the device is full, the file is read-only
WriteErrors == {
    Exception("OSError", <<"[Errno 28] No space left on device">>),
    Exception("PermissionError", <<"[Errno 13] Permission denied">>) }

\* what a file opened with "w" holds when the write did not finish
PartialFile == [partial |-> TRUE]

\* the files after a write of name that raised: open raised and nothing
\* changed, or the file was truncated and not written to its end
FailedWrites(fs, name) ==
    {fs, [f \in DOMAIN fs \cup {name} |-> IF f = name THEN PartialFile ELSE fs[f]]}

DumpFailedEvent(name, e) == [op |-> "dump_failed", file |-> name, exc |-> e]

\* lines 143-145 raise: the handler of line 153 takes over
MainDumpStampedFails ==
    /\ pc = "dump_stamped"
    /\ \E e \in WriteErrors, fs \in FailedWrites(files, StampedFile(clock)) :
          /\ files' = fs
          /\ exc' = e
          /\ trace' = Append(trace, DumpFailedEvent(StampedFile(clock), e))
    /\ pc' = "except"
    /\ UNCHANGED <<entry, api_key, max_retries, it, attempt, content, usage, urls,
                   valid_urls, search_result, result, clock, calls>>

\* lines 148-149 raise, after the timestamped file was written
MainDumpLatestFails ==
    /\ pc = "dump_latest"
    /\ \E e \in WriteErrors, fs \in FailedWrites(files, LatestFile) :
          /\ files' = fs
          /\ exc' = e
          /\ trace' = Append(trace, DumpFailedEvent(LatestFile, e))
    /\ pc' = "except"
    /\ UNCHANGED <<entry, api_key, max_retries, it, attempt, content, usage, urls,
                   valid_urls, search_result, result, clock, calls>>

\* lines 164-165 raise inside the handler: that exception leaves main, and
\* line 167 is not reached
MainExceptFails ==
    /\ pc = "except"
    /\ \E e \in WriteErrors, fs \in FailedWrites(files, LatestFile) :
          /\ files' = fs
          /\ exc' = e
          /\ trace' = Append(Append(trace, DumpFailedEvent(LatestFile, e)),
                             RaiseEvent("main", e))
    /\ pc' = "raised"
    /\ UNCHANGED <<entry, api_key, max_retries, it, attempt, content, usage, urls,
                   valid_urls, search_result, result, clock, calls>>

NextIO ==
    \/ Next
    \/ MainDumpStampedFails
    \/ MainDumpLatestFails
    \/ MainExceptFails

\* the run in a directory where a write may fail
SpecIO == Init /\ [][NextIO]_vars

-----------------------------------------------------------------------------
(* The two passes over one response text *)

\* content = response.output_text, any text; nothing is extracted yet
InitExtract ==
    /\ entry = "search_news_with_retry"
    /\ api_key = PyStr(<<"s", "k">>)
    /\ max_retries = DefaultMaxRetries
    /\ files = NoFiles
    /\ content \in Texts
    /\ urls = <<>>
    /\ valid_urls = <<>>
    /\ pc = "split"
    /\ it = 0
    /\ attempt = 0
    /\ usage = None
    /\ exc = None
    /\ search_result = None
    /\ result = None
    /\ clock = 1
    /\ calls = 1
    /\ trace = <<>>

\* lines 65-77: the pass line by line, and its validation
ExtractNewsUrls ==
    /\ pc = "split"
    /\ urls' = NewsUrls(content)
    /\ valid_urls' = validate_urls(NewsUrls(content))
    /\ pc' = "validated"
    /\ UNCHANGED <<entry, api_key, max_retries, it, attempt, content, usage, exc,
                   search_result, result, clock, files, calls, trace>>

\* lines 85-86: the pattern applied to the whole text, and its validation,
\* whatever the first pass gave
AlternativeParsing ==
    /\ pc = "validated"
    /\ urls' = AllUrls(content)
    /\ valid_urls' = validate_urls(AllUrls(content))
    /\ pc' = "reparsed"
    /\ UNCHANGED <<entry, api_key, max_retries, it, attempt, content, usage, exc,
                   search_result, result, clock, files, calls, trace>>

NextExtract ==
    \/ ExtractNewsUrls
    \/ AlternativeParsing

SpecExtract == InitExtract /\ [][NextExtract]_vars

-----------------------------------------------------------------------------
(* Properties *)

\* positions of the events of one kind in the trace
EventsOf(op) == {i \in 1..Len(trace) : trace[i].op = op}

\* the Fetcher has raised / returned
FetcherRaises ==
    {i \in EventsOf("raise") : trace[i].from = "search_news_with_retry"}
FetcherReturns ==
    {i \in EventsOf("return") : trace[i].from = "search_news_with_retry"}

\* the run is over
Terminated == pc \in {"returned", "raised"}

\* C1: for every retry bound N >= 1, one invocation of search_news_with_retry
\* issues at most N calls of client.responses.create: the calls counted never
\* exceed N, each call is one attempt, and the attempts are numbered within 1..N.
C1_AtMostNCalls ==
    max_retries >= 1 =>
        /\ calls <= max_retries
        /\ Cardinality(EventsOf("create")) = calls
        /\ \A i \in EventsOf("create") : trace[i].attempt \in 1..max_retries

\* all N attempts of the largest bound were made
C1_Witness ==
    /\ entry = "search_news_with_retry"
    /\ max_retries = MaxRetriesBound
    /\ calls = max_retries
    /\ pc = "raised"

\* between attempt k and attempt k + 1 the Fetcher sleeps 2^(k - less)
\* seconds: the two attempts are separated by exactly one event, a sleep of
\* that length
SleepsBetweenAttempts(less) ==
    \A i, j \in EventsOf("create") :
        (i < j /\ trace[j].attempt = trace[i].attempt + 1) =>
            /\ j = i + 2
            /\ trace[i + 1].op = "sleep"
            /\ trace[i + 1].secs = 2 ^ (trace[i].attempt - less)

\* C2, as stated: with the attempts counted 1..N, the Fetcher sleeps exactly
\* 2^k seconds between attempt k and attempt k + 1.
C2_SleepsTwoToTheK == SleepsBetweenAttempts(0)

\* C2, amended: with the attempts counted 1..N, the Fetcher sleeps exactly
\* 2^(k-1) seconds between attempt k and attempt k + 1 (1 second after the
\* first attempt, 2 after the second).
C2_SleepsTwoToTheKMinusOne == SleepsBetweenAttempts(1)

\* a third attempt was made, after sleeps of 1 and of 2 seconds
C2_Witness ==
    /\ \E i \in EventsOf("create") : trace[i].attempt = 3
    /\ \E i \in EventsOf("sleep") : trace[i].secs = 2
    /\ clock = 4

\* every attempt made so far failed
AllAttemptsFailed == \A i \in EventsOf("create") : trace[i].outcome # "ok"

\* C3: if every one of the N attempts fails, search_news_with_retry raises,
\* and main then writes to news_results_latest.json a record with status
\* "error" whose error field is exactly the message of the exception the
\* Fetcher raised.
C3_ErrorMessageVerbatim ==
    (entry = "main" /\ Terminated /\ calls = max_retries /\ AllAttemptsFailed) =>
        /\ pc = "raised"
        /\ Cardinality(FetcherRaises) = 1
        /\ \A i \in FetcherRaises :
            /\ i > 1
            /\ trace[i - 1].op = "create"
            /\ trace[i - 1].attempt = max_retries
            /\ trace[i].exc = trace[i - 1].exc
            /\ LatestFile \in DOMAIN files
            /\ files[LatestFile].status = "error"
            /\ \/ trace[i].exc.args = <<files[LatestFile].error>>
               \/ trace[i].exc.args = <<>> /\ files[LatestFile].error = ""

\* three failed attempts, the last one an error of the API
C3_Witness ==
    /\ entry = "main"
    /\ pc = "raised"
    /\ calls = max_retries
    /\ exc \in ApiErrors
    /\ files[LatestFile].error = "Connection error."

\* every attempt made so far got a response text without "http"
AllAttemptsNoHttp == \A i \in EventsOf("create") : trace[i].outcome = "no_http"

\* C4: if the response text of every attempt contains no "http",
\* search_news_with_retry makes exactly N attempts, none skipped, and then
\* raises "No valid URLs found in web search results"; it never returns.
C4_NoHttpExhaustsRetries ==
    (calls >= 1 /\ AllAttemptsNoHttp) =>
        /\ FetcherReturns = {}
        /\ pc \notin {"build", "dump_stamped", "dump_latest", "returned"}
        /\ \A i \in EventsOf("create") :
               trace[i].attempt = Cardinality({j \in EventsOf("create") : j <= i})
        /\ (FetcherRaises # {} \/ Terminated) =>
            /\ calls = max_retries
            /\ \A i \in FetcherRaises : trace[i].exc = NoValidUrlsError
            /\ FetcherRaises # {}
            /\ exc = NoValidUrlsError

\* the largest bound exhausted on texts without "http"
C4_Witness ==
    /\ entry = "search_news_with_retry"
    /\ max_retries = MaxRetriesBound
    /\ AllAttemptsNoHttp
    /\ calls = max_retries
    /\ pc = "raised"
    /\ exc = NoValidUrlsError

IsDump(ev) == ev.op = "dump"

\* the file writes of the run, in order
Dumps == SelectSeq(trace, IsDump)

\* names a timestamped file of this run can have
StampedNames == {StampedFile(t) : t \in 1..clock}

\* C5: when the Fetcher succeeds, main writes the same result record (status
\* "success", same timestamp, news_urls and model_used) to the timestamped
\* file and to news_results_latest.json, the timestamped file first, and no
\* error record is written in that run.
C5_SuccessWritesBothFiles ==
    (entry = "main" /\ Terminated /\ FetcherReturns # {}) =>
        /\ pc = "returned"
        /\ Len(Dumps) = 2
        /\ Dumps[1].file \in StampedNames
        /\ Dumps[1].file # LatestFile
        /\ Dumps[2].file = LatestFile
        /\ Dumps[1].status = "success"
        /\ Dumps[2].status = "success"
        /\ files[Dumps[1].file] = files[LatestFile]
        /\ files[LatestFile].status = "success"
        /\ files[LatestFile].timestamp \in 1..clock
        /\ files[LatestFile].news_urls = search_result.urls
        /\ files[LatestFile].model_used = ModelName

\* a run that succeeded at its second attempt and left both files
C5_Witness ==
    /\ entry = "main"
    /\ pc = "returned"
    /\ calls = 2
    /\ Cardinality(DOMAIN files) = 2
    /\ Len(files[LatestFile].news_urls) = 1

\* C6: if OPENAI_API_KEY is missing or empty, main makes no API call, no
\* retry and no backoff sleep: the run goes directly to the error outcome,
\* writes an error-status record to news_results_latest.json and re-raises.
C6_MissingKeyNoApiCall ==
    (entry = "main" /\ api_key \in {None, PyStr(<<>>)}) =>
        /\ calls = 0
        /\ EventsOf("create") = {}
        /\ EventsOf("sleep") = {}
        /\ clock = 1
        /\ pc \in {"main", "except", "reraise", "raised"}
        /\ pc = "raised" =>
            /\ Len(trace) = 2
            /\ trace[1].op = "dump"
            /\ trace[1].file = LatestFile
            /\ trace[1].status = "error"
            /\ trace[2] = RaiseEvent("main", MissingKeyError)
            /\ files[LatestFile].status = "error"
            /\ files[LatestFile].error =
                   "OPENAI_API_KEY environment variable is required"

\* a run with an empty key, over
C6_Witness ==
    /\ entry = "main"
    /\ api_key = PyStr(<<>>)
    /\ pc = "raised"

\* C7: on a fatal error raised before the output files are written (missing
\* key, or the Fetcher failing after its last attempt), main writes only
\* news_results_latest.json: no timestamped file is created or changed.
C7_ErrorWritesOnlyLatest ==
    (entry = "main" /\ pc \in {"reraise", "raised"}) =>
        /\ Len(Dumps) = 1
        /\ Dumps[1].file = LatestFile
        /\ \A f \in DOMAIN files \ {LatestFile} : files[f] \in OldRecords

\* a failed run in a directory that held a timestamped file
C7_Witness ==
    /\ entry = "main"
    /\ pc = "raised"
    /\ calls = max_retries
    /\ StampedFile(1) \in DOMAIN files
    /\ files[StampedFile(1)] = OldSuccess

\* the exception main's handler caught: the one the Fetcher raised, or the
\* one raised for the missing key
CaughtByMain(e) ==
    IF FetcherRaises = {} THEN e = MissingKeyError
    ELSE \A i \in FetcherRaises : e = trace[i].exc

\* C8: every fatal error caught at the top level of main is re-raised, and
\* only after the error record has been written to news_results_latest.json:
\* the write precedes the propagation, a run that wrote an error record does
\* not return, and the exception that leaves main is the one that was caught.
C8_ErrorWrittenThenReraised ==
    entry = "main" =>
        /\ (\E i \in EventsOf("dump") : trace[i].status = "error") =>
               pc \in {"reraise", "raised"}
        /\ \A i \in EventsOf("raise") : trace[i].from = "main" =>
            /\ i = Len(trace)
            /\ i > 1
            /\ trace[i - 1].op = "dump"
            /\ trace[i - 1].file = LatestFile
            /\ trace[i - 1].status = "error"
            /\ files[LatestFile].status = "error"
            /\ CaughtByMain(trace[i].exc)
        /\ pc = "raised" =>
            /\ trace[Len(trace)].op = "raise"
            /\ trace[Len(trace)].from = "main"
            /\ CaughtByMain(exc)

\* a run whose three attempts found no URL, over
C8_Witness ==
    /\ entry = "main"
    /\ pc = "raised"
    /\ calls = max_retries
    /\ exc = NoValidUrlsError
    /\ trace[Len(trace)] = RaiseEvent("main", NoValidUrlsError)

\* starts with http:// or https:// and is longer than 10 characters
KeptCondition(u) ==
    /\ \/ Len(u) >= 7 /\ SubSeq(u, 1, 7) = <<"h", "t", "t", "p", ":", "/", "/">>
       \/ Len(u) >= 8 /\ SubSeq(u, 1, 8) = <<"h", "t", "t", "p", "s", ":", "/", "/">>
    /\ Len(u) > 10

\* the candidates as validate_urls looks at them
Stripped == [i \in 1..Len(urls) |-> Strip(urls[i])]

\* C9: every URL the list returned by validate_urls keeps (and hence every
\* URL of a Fetcher result) starts with http:// or https:// and is longer
\* than 10; every candidate that fails either condition is dropped, and the
\* kept URLs stay in their order of appearance (the conditions being those
\* of the candidate with its surrounding whitespace stripped).
C9_KeptUrlsValid ==
    pc # "validate" =>
        /\ \A i \in 1..Len(valid_urls) : KeptCondition(valid_urls[i])
        /\ valid_urls = SelectSeq(Stripped, KeptCondition)
        /\ search_result # None =>
            /\ Len(search_result.urls) = 1
            /\ search_result.urls[1] = valid_urls[1]
            /\ KeptCondition(search_result.urls[1])

\* a list of three candidates of which the first and the last are kept, the
\* first one stripped, and the second is dropped
C9_Witness ==
    /\ entry = "validate_urls"
    /\ pc = "returned"
    /\ Len(urls) = 3
    /\ Len(valid_urls) = 2
    /\ urls[1] # valid_urls[1]
    /\ Strip(urls[1]) = valid_urls[1]
    /\ ~KeptCondition(urls[2])
    /\ urls[3] = valid_urls[2]

\* C10: at the end of every run of main, news_results_latest.json holds the
\* record of that run and its status matches the outcome: "success" if and
\* only if main returned normally, "error" if and only if main raised.
C10_LatestMatchesOutcome ==
    (entry = "main" /\ Terminated) =>
        /\ LatestFile \in DOMAIN files
        /\ files[LatestFile] \notin OldRecords
        /\ files[LatestFile].timestamp \in 1..clock
        /\ Len(Dumps) >= 1
        /\ Dumps[Len(Dumps)].file = LatestFile
        /\ Dumps[Len(Dumps)].status = files[LatestFile].status
        /\ files[LatestFile].status = "success" <=> pc = "returned"
        /\ files[LatestFile].status = "error" <=> pc = "raised"
        /\ pc = "returned" => files[LatestFile].news_urls = result.news_urls
        /\ pc = "raised" =>
               \/ exc.args = <<files[LatestFile].error>>
               \/ exc.args = <<>> /\ files[LatestFile].error = ""

\* a run that succeeded at its third attempt, over
C10_Witness ==
    /\ entry = "main"
    /\ pc = "returned"
    /\ calls = max_retries
    /\ files[LatestFile].status = "success"

\* a bound on the steps the run has left: three per iteration of the loop
\* not yet begun, and the steps of the current iteration and of main's tail
Variant ==
    LET left == max_retries - it
    IN  CASE pc = "main" -> 3 * left + 5
          [] pc = "for" -> 3 * left + 4
          [] pc = "create" -> 3 * left + 6
          [] pc = "handler" -> 3 * left + 5
          [] pc = "build" -> 3
          [] pc \in {"dump_stamped", "except"} -> 2
          [] pc \in {"dump_latest", "reraise", "validate"} -> 1
          [] OTHER -> 0

\* the ends of main recorded in the trace
MainEnds ==
    {i \in EventsOf("return") \cup EventsOf("raise") : trace[i].from = "main"}

\* C11: every run of main terminates in exactly one of the two terminal
\* states success or error, provided each API call eventually returns or
\* raises: every step brings the run nearer to its end (the retry loop
\* cannot run for ever), the run ends returned or raised and no other state
\* is one it stops in, and it ends once, in one of the two ways.
C11_MainTerminates ==
    /\ (entry = "main") ~> (pc \in {"returned", "raised"})
    /\ [][Variant' < Variant]_vars
    /\ [](entry = "main" =>
            /\ Cardinality(MainEnds) = (IF Terminated THEN 1 ELSE 0)
            /\ pc = "returned" => trace[Len(trace)] = ReturnEvent("main")
            /\ pc = "raised" => trace[Len(trace)] = RaiseEvent("main", exc))

\* a run of main that ended in error after three attempts and two sleeps
C11_Witness ==
    /\ entry = "main"
    /\ pc = "raised"
    /\ Cardinality(EventsOf("create")) = DefaultMaxRetries
    /\ Cardinality(EventsOf("sleep")) = DefaultMaxRetries - 1
    /\ Variant = 0

\* C12: for every retry bound max_retries >= 0, whenever
\* search_news_with_retry returns normally its return value is a result
\* record whose urls list holds exactly one URL, the first valid URL of the
\* text of the successful attempt: never a record with no URL, never no
\* record at all.
C12_ReturnsRecordWithOneUrl ==
    (max_retries >= 0 /\ FetcherReturns # {}) =>
        /\ search_result # None
        /\ Len(search_result.urls) = 1
        /\ Len(ValidUrlsOf(search_result.raw_response)) >= 1
        /\ search_result.urls[1] = ValidUrlsOf(search_result.raw_response)[1]

\* search_news_with_retry is over
FetcherOver == FetcherRaises \cup FetcherReturns # {}

\* C13: search_news_with_retry stops at the first successful attempt: after
\* an attempt that yields a valid URL there is no further API call and no
\* sleep, so the number of API calls is the index of the first successful
\* attempt, or N when no attempt succeeds.
C13_StopsAtFirstSuccess ==
    /\ \A i \in EventsOf("create") :
          trace[i].outcome = "ok" =>
              /\ \A j \in (i + 1)..Len(trace) : trace[j].op \notin {"create", "sleep"}
              /\ \A j \in EventsOf("create") : j < i => trace[j].outcome # "ok"
              /\ calls = trace[i].attempt
              /\ trace[i + 1] = ReturnEvent("search_news_with_retry")
    /\ (FetcherOver /\ AllAttemptsFailed) => calls = max_retries

\* the second of three attempts succeeded and the function returned: two
\* calls and one sleep, no more
C13_Witness ==
    /\ entry = "search_news_with_retry"
    /\ pc = "returned"
    /\ max_retries = DefaultMaxRetries
    /\ calls = 2
    /\ Cardinality(EventsOf("sleep")) = 1
    /\ trace[Len(trace) - 1] = CreateEvent(2, "ok", None)

\* C14: in search_news_with_retry a backoff sleep happens only between two
\* attempts: each sleep comes directly after a failed attempt that is not
\* the N-th and directly before the next attempt, none precedes the first
\* attempt, and a run of m >= 1 attempts has slept exactly m - 1 times when
\* it is over.
C14_SleepsOnlyBetweenAttempts ==
    /\ \A i \in EventsOf("sleep") :
          /\ i > 1
          /\ trace[i - 1].op = "create"
          /\ trace[i - 1].outcome # "ok"
          /\ trace[i - 1].attempt < max_retries
          /\ i < Len(trace) =>
                /\ trace[i + 1].op = "create"
                /\ trace[i + 1].attempt = trace[i - 1].attempt + 1
    /\ \A i \in EventsOf("create") :
          trace[i].attempt = 1 => \A j \in 1..i : trace[j].op # "sleep"
    /\ calls >= 1 =>
          Cardinality(EventsOf("sleep")) = (IF pc \in {"for", "create"} THEN calls ELSE calls - 1)
    /\ (FetcherOver /\ calls >= 1) => Cardinality(EventsOf("sleep")) = calls - 1

\* all three attempts failed: two sleeps, and the exception is raised
\* directly after the third attempt
C14_Witness ==
    /\ entry = "search_news_with_retry"
    /\ pc = "raised"
    /\ max_retries = DefaultMaxRetries
    /\ calls = DefaultMaxRetries
    /\ Cardinality(EventsOf("sleep")) = DefaultMaxRetries - 1
    /\ trace[Len(trace) - 1].op = "create"
    /\ trace[Len(trace) - 1].attempt = DefaultMaxRetries

\* C15: when all N attempts fail, the exception search_news_with_retry
\* propagates is the exception of the N-th attempt, whatever kind of failure
\* each attempt had: it raises once, directly after the N-th failed attempt,
\* the exception of that attempt, which is what its caller receives; the
\* exceptions of attempts 1..N-1 are followed by a sleep and are not raised.
C15_LastExceptionPropagates ==
    /\ Cardinality(FetcherRaises) <= 1
    /\ \A r \in FetcherRaises :
          /\ AllAttemptsFailed
          /\ calls = max_retries
          /\ r > 1
          /\ trace[r - 1].op = "create"
          /\ trace[r - 1].attempt = max_retries
          /\ trace[r].exc = trace[r - 1].exc
          /\ trace[r].exc # None
          /\ pc \in {"except", "reraise", "raised"} /\ exc = trace[r].exc
    /\ \A i \in EventsOf("create") :
          (trace[i].outcome # "ok" /\ trace[i].attempt < max_retries /\ i < Len(trace)) =>
              trace[i + 1].op = "sleep"
    /\ (FetcherOver /\ AllAttemptsFailed /\ max_retries >= 1) => FetcherRaises # {}

\* three failed attempts of three kinds: a connection error, a text with no
\* valid URL, a timeout; the timeout is what the caller receives
C15_Witness ==
    /\ entry = "search_news_with_retry"
    /\ pc = "raised"
    /\ max_retries = DefaultMaxRetries
    /\ Len(trace) = 2 * DefaultMaxRetries
    /\ trace[1].exc = Exception("APIConnectionError", <<"Connection error.">>)
    /\ trace[3].exc = NoValidUrlsError
    /\ trace[5].exc = Exception("TimeoutError", <<>>)
    /\ exc = Exception("TimeoutError", <<>>)
    /\ trace[6] = RaiseEvent("search_news_with_retry", exc)

\* the file holds a success record
HoldsSuccess(name) ==
    /\ name \in DOMAIN files
    /\ "status" \in DOMAIN files[name]
    /\ files[name].status = "success"

\* C16: a run never leaves a success record behind when it ends in the
\* error state: if main raises, no file written in that run, timestamped or
\* latest, holds a record with status "success", also when a file write
\* itself fails.
C16_NoSuccessRecordAfterError ==
    (entry = "main" /\ pc = "raised") =>
        \A i \in EventsOf("dump") : ~HoldsSuccess(trace[i].file)

\* C17: the alternative parsing is equivalent to the pass line by line: for
\* every response text, the pattern applied to the whole text and validated
\* gives the same URL list as the pattern applied to each stripped line that
\* contains http and validated, so the alternative parsing gives no valid
\* URL when the pass line by line gave none.
C17_FallbackSameAsLines ==
    [][pc = "validated" =>
          /\ pc' = "reparsed"
          /\ valid_urls' = valid_urls
          /\ Len(valid_urls) = 0 => Len(valid_urls') = 0]_vars

\* the alternative parsing has run on a text of two lines whose pattern
\* matches are all too short to be valid: the case the code runs it in
C17_Witness ==
    /\ pc = "reparsed"
    /\ Len(SplitLines(content)) = 2
    /\ Len(urls) = 2
    /\ Len(valid_urls) = 0

====
